---- MODULE Spec2Model ----
(***************************************************************************)
(* A model of plenario's filter-query translation (plenario/api/sensor.py: *)
(* make_query and its callers weather_stations and weather), of the        *)
(* time-bucketed aggregation of sensor observations                        *)
(* (plenario/sensor_network/api/sensor_aggregate_functions.py), of         *)
(* weather_fill (plenario/api/sensor.py) and of unknown_features_resolve   *)
(* (plenario/apiary/views.py).  Each has its own specification: Spec,      *)
(* SpecAgg, SpecFill and SpecResolve.                                      *)
(*                                                                         *)
(* Strings are sequences of chunks: "wban_code__in" is                     *)
(* <<"wban","_","code","_","_","in">>.  The underscore and the comma are   *)
(* always chunks of their own, so that str.split, str.startswith and       *)
(* str.endswith are computed on the text and not assumed.                  *)
(***************************************************************************)
EXTENDS Integers, Sequences, FiniteSets, TLC

VARIABLES
    params,         \* request.args: sequence of <<key, value>>, keys distinct
    pc,             \* "request" | "responded" | "raised"
    handler,        \* which view served the request
    table_keys,     \* table.columns.keys() of the table that view handed to make_query
    mq,             \* make_query: "none" | "returned" | "raised"
    scanned,        \* the (field, operator) make_query resolved for each key it scanned
    valid_query,    \* make_query's first return value
    query_clauses,  \* make_query's second return value
    message,        \* resp['meta']['message'] as make_query left it
    status_code,    \* make_query's fourth return value
    resp_status,    \* resp['meta']['status'] of the response
    objects,        \* resp['objects'] of the response
    base_query,     \* the query object the caller built: filters, order_by, limit, offset
    executed,       \* whether the caller ran base_query.all()

    \* time-bucketed aggregation
    start_dt,       \* the start datetime of the call
    end_dt,         \* the end datetime of the call
    agg_unit,       \* the unit: "year", "month", "day", "hour", "minute", "second"
    obs_table,      \* the rows of the feature table: a set of [datetime, reading]
    apc,            \* "args" | "ranged" | "zeroed" | "aggregated" | "failed"
    dt_range,       \* what _generate_datetime_range returned
    aggregates,     \* what _apply_aggregates returned
    zero_unit,      \* the unit of a call of _zero_out_datetime
    zeroed,         \* _zero_out_datetime(start_dt, zero_unit)
    rezeroed,       \* _zero_out_datetime(zeroed, zero_unit)
    feature_arg,    \* args['feature'] of a call of aggregate
    sensors_arg,    \* args['sensors'] of the call, empty when there is none
    label_arg,      \* the agg_label of the call: "avg" | "std" | "var"
    eligible,       \* what _valid_columns returned
    reflected,      \* the table names handed to _reflect
    selected,       \* what _generate_aggregate_selects returned
    queries,        \* the number of bucket queries executed
    results,        \* what _format_aggregates returned
    agg_error,      \* the exception aggregate raised, "none" when it returned

    \* weather_fill
    year_arg,       \* args.get('year')
    month_arg,      \* args.get('month')
    wbans_arg,      \* args.get('wbans')
    fpc,            \* "request" | "responded"
    fill_status,    \* the status code of the response
    fill_message,   \* the message of the response
    queued,         \* the update_weather tasks queued: [month, year, wbans]

    \* unknown_features_resolve
    target_sensor,      \* the sensor of the call
    unknown_feature,    \* the rows of the table unknown_feature
    unknowns_at_call,   \* the rows of unknown_feature when the call began
    unknownfeature,     \* the table unknownfeature: whether it exists, and its rows
    inserts,            \* the inserts executed on feature tables, in order
    upc                 \* "request" | "resolved" | "raised"

qvars == <<params, pc, handler, table_keys, mq, scanned, valid_query, query_clauses, message,
           status_code, resp_status, objects, base_query, executed>>

zvars == <<zero_unit, zeroed, rezeroed>>

rvars == <<feature_arg, sensors_arg, label_arg, eligible, reflected, selected, queries,
           results, agg_error>>

avars == <<start_dt, end_dt, agg_unit, obs_table, apc, dt_range, aggregates, zvars, rvars>>

fvars == <<year_arg, month_arg, wbans_arg, fpc, fill_status, fill_message, queued>>

uvars == <<target_sensor, unknown_feature, unknowns_at_call, unknownfeature, inserts, upc>>

vars == <<qvars, avars, fvars, uvars>>

----------------------------------------------------------------------------
(* Bounds *)

\* the most parameters a modelled request carries
MaxParams == 2

\* the most whole units between the start and the end of a modelled range
MaxSteps == 2

----------------------------------------------------------------------------
(* Text *)

U == "_"
SEP == <<U, U>>
COMMA == <<",">>

StartsWith(s, p) == Len(s) >= Len(p) /\ SubSeq(s, 1, Len(p)) = p

EndsWith(s, p) == Len(s) >= Len(p) /\ SubSeq(s, Len(s) - Len(p) + 1, Len(s)) = p

\* the least index at which sep occurs in s, 0 when it does not occur
Find(s, sep) ==
    LET hits == {i \in 1..(Len(s) - Len(sep) + 1) : SubSeq(s, i, i + Len(sep) - 1) = sep}
    IN IF hits = {} THEN 0 ELSE CHOOSE i \in hits : \A j \in hits : i <= j

RECURSIVE Split(_, _)
\* str.split(sep): left to right, non-overlapping; ''.split(sep) is ['']
Split(s, sep) ==
    LET i == Find(s, sep)
    IN IF i = 0 THEN <<s>>
       ELSE <<SubSeq(s, 1, i - 1)>> \o Split(SubSeq(s, i + Len(sep), Len(s)), sep)

----------------------------------------------------------------------------
(* Requests: tables, keys and values *)

wban_code == <<"wban", U, "code">>
location == <<"location">>
date == <<"date">>
datetime == <<"datetime">>

\* table.columns.keys() of the reflected weather_stations table
StationsColumns == {wban_code, location}

\* table.columns.keys() of dat_weather_observations_{table}
WeatherColumns(table) ==
    IF table = "daily" THEN {wban_code, date} ELSE {wban_code, datetime}

\* the keys make_query removes before scanning
ReservedKeys == {<<"offset">>, <<"limit">>, <<"order", U, "by">>, <<"weather">>}

\* the attributes a column answers hasattr() for, among the names the model probes
ColumnAttrs ==
    {SEP \o <<o>> \o SEP : o \in {"eq", "ne", "lt", "le", "gt", "ge"}}
        \cup {<<"like">>, <<"is", U>>, <<"in", U>>}

\* a query value: text, or text that json.loads parses to obj
Str(s) == [kind |-> "str", s |-> s, obj |-> <<>>]
Json(o) == [kind |-> "json", s |-> <<"{json}">>, obj |-> o]
PyNone == [kind |-> "none", s |-> <<>>, obj |-> <<>>]

Polygon == [type |-> "Polygon", coordinates |-> <<"ring">>]
LineString == [type |-> "LineString", coordinates |-> <<"line">>]
Feature(g) == [type |-> "Feature", geometry |-> g]
FeatureCollection(fs) == [type |-> "FeatureCollection", features |-> fs]
EmptyObject == [properties |-> <<>>]

K(field, suffix) == field \o SEP \o suffix
time_of_day(s) == <<"time", U, "of", U, "day", U, s>>

\* the parameters a modelled request is drawn from
ParamChoices == <<
    << <<"offset">>, Str(<<"5">>) >>,
    << <<"offset">>, Str(<<"x">>) >>,
    << wban_code, Str(<<"5">>) >>,
    << K(wban_code, <<"eq">>), Str(<<"5">>) >>,
    << K(wban_code, <<"ne">>), Str(<<"null">>) >>,
    << K(wban_code, <<"lt">>), Str(<<"5">>) >>,
    << K(wban_code, <<"le">>), Str(<<"5">>) >>,
    << K(wban_code, <<"gt">>), Str(<<"5">>) >>,
    << K(wban_code, <<"ge">>), Str(<<"5">>) >>,
    << K(wban_code, <<"in">>), Str(<<>>) >>,
    << K(wban_code, <<"in">>), Str(<<"a", ",", "b">>) >>,
    << K(wban_code, <<"in">>), Str(<<"a", ",", ",", "b", ",">>) >>,
    << K(location, <<"within">>), Json(Feature(Polygon)) >>,
    << K(location, <<"within">>), Json(FeatureCollection(<<Feature(LineString)>>)) >>,
    << K(location, <<"within">>), Json(LineString) >>,
    << K(location, <<"within">>), Json(Polygon) >>,
    << K(location, <<"within">>), Str(<<"notjson">>) >>,
    << K(location, <<"within">>), Json(EmptyObject) >>,
    << K(location, <<"within">>), Json(FeatureCollection(<<>>)) >>,
    << K(date, time_of_day("ge")), Str(<<"5">>) >>,
    << K(wban_code, time_of_day("le")), Str(<<"5">>) >>,
    << K(wban_code, time_of_day("eq")), Str(<<"5">>) >>,
    << K(wban_code, <<"like">>), Str(<<"5">>) >>,
    << K(wban_code, <<"is">>), Str(<<"null">>) >>,
    << K(wban_code, <<"bogus">>), Str(<<"5">>) >>,
    << K(wban_code, <<"nope">>), Str(<<"5">>) >>,
    << <<"bogus">>, Str(<<"5">>) >>,
    << K(<<"fake">>, <<"in">>), Str(<<"a">>) >>,
    << K(K(wban_code, <<"in">>), <<"x">>), Str(<<"a">>) >>
>>

KeyOf(p) == p[1]
ValueOf(p) == p[2]

\* request.args: at most MaxParams parameters, no key twice
IndexSeqs ==
    {ix \in UNION {[1..n -> 1..Len(ParamChoices)] : n \in 0..MaxParams} :
        \A i, j \in DOMAIN ix :
            i # j => KeyOf(ParamChoices[ix[i]]) # KeyOf(ParamChoices[ix[j]])}

----------------------------------------------------------------------------
(* make_query *)

Msg(arg, text) == [arg |-> arg, text |-> text]
NoMessage == Msg(<<>>, "")
FieldMessage(field) == Msg(field, "is not a valid field name")
OperatorMessage(operator) == Msg(operator, "is not a valid query operator")

Clause(kind, column, attr, operand) ==
    [kind |-> kind, column |-> column, attr |-> attr, operand |-> operand]
\* query = None, appended as it is
NoneClause == Clause("None", <<>>, <<>>, PyNone)

\* args_keys after the four remove() calls, in request order
StripReserved(args) == SelectSeq(args, LAMBDA p : KeyOf(p) \notin ReservedKeys)

\* variant: split at the first '__' only, as query_param.split('__', 1) would
SplitKeyFirst(query_param) ==
    LET i == Find(query_param, SEP)
    IN IF i = 0 THEN <<query_param, <<"eq">>>>
       ELSE <<SubSeq(query_param, 1, i - 1), SubSeq(query_param, i + 2, Len(query_param))>>

\* field, operator = query_param.split('__'), or the whole key and 'eq' on ValueError
SplitKey(query_param) ==
    LET parts == Split(query_param, SEP)
    IN IF Len(parts) = 2 THEN <<parts[1], parts[2]>> ELSE <<query_param, <<"eq">>>>

\* variant: empty items dropped, as [v for v in query_value.split(',') if v] would
InClauseDropEmpty(field, query_value) ==
    Clause("in", field, <<"in", U>>,
           SelectSeq(Split(query_value.s, COMMA), LAMBDA v : v # <<>>))

\* column.in_(query_value.split(','))
InClause(field, query_value) ==
    Clause("in", field, <<"in", U>>, Split(query_value.s, COMMA))

\* shape.buffer(y).__geo_interface__, y the angular size of 100 meters
BufferMeters == 100

\* variant: a LineString is handed on as it is
BufferNone(val) == val

Buffer(val) ==
    [type |-> "Polygon", coordinates |-> <<"buffer", val.coordinates, BufferMeters>>]

EPSG4326 == [type |-> "name", properties |-> [name |-> "EPSG:4326"]]

\* val['crs'] = {...}
WithCrs(val) ==
    [k \in DOMAIN val \cup {"crs"} |-> IF k = "crs" THEN EPSG4326 ELSE val[k]]

\* json.loads and the three payload shapes; ok = FALSE where the code raises
ResolveGeometry(query_value) ==
    IF query_value.kind # "json" THEN [ok |-> FALSE, val |-> <<>>]
    ELSE LET geo == query_value.obj
         IN IF "features" \in DOMAIN geo
            THEN IF Len(geo.features) = 0 THEN [ok |-> FALSE, val |-> <<>>]
                 ELSE [ok |-> TRUE, val |-> geo.features[1].geometry]
            ELSE IF "geometry" \in DOMAIN geo THEN [ok |-> TRUE, val |-> geo.geometry]
            ELSE [ok |-> TRUE, val |-> geo]

\* the within branch; ok = FALSE where the code raises
WithinClause(field, query_value) ==
    LET r == ResolveGeometry(query_value)
    IN IF ~r.ok \/ "type" \notin DOMAIN r.val THEN [ok |-> FALSE, clause |-> NoneClause]
       ELSE LET val == IF r.val.type = "LineString" THEN Buffer(r.val) ELSE r.val
            IN [ok |-> TRUE, clause |-> Clause("within", field, <<"ST", U, "Within">>, WithCrs(val))]

\* the time_of_day branch: query stays None unless the suffix ends in ge or le
TimeOfDayClause(field, operator, query_value) ==
    IF EndsWith(operator, <<"ge">>)
    THEN Clause("date_part", field, SEP \o <<"ge">> \o SEP, query_value)
    ELSE IF EndsWith(operator, <<"le">>)
    THEN Clause("date_part", field, SEP \o <<"le">> \o SEP, query_value)
    ELSE NoneClause

\* variant: the probe list without '__%s__'
ResolveAttrNoDunder(operator) ==
    LET names == <<operator, operator \o <<U>>>>
        hits == {i \in 1..2 : names[i] \in ColumnAttrs}
    IN IF hits = {} THEN [found |-> FALSE, attr |-> <<>>]
       ELSE [found |-> TRUE, attr |-> names[CHOOSE i \in hits : \A j \in hits : i <= j]]

\* the first of '%s', '%s_', '__%s__' the column has; found = FALSE on IndexError
ResolveAttr(operator) ==
    LET names == <<operator, operator \o <<U>>, SEP \o operator \o SEP>>
        hits == {i \in 1..3 : names[i] \in ColumnAttrs}
    IN IF hits = {} THEN [found |-> FALSE, attr |-> <<>>]
       ELSE [found |-> TRUE, attr |-> names[CHOOSE i \in hits : \A j \in hits : i <= j]]

\* getattr(column, attr)(query_value), 'null' standing for None
AttrClause(field, attr, query_value) ==
    Clause("attr", field, attr,
           IF query_value = Str(<<"null">>) THEN PyNone ELSE query_value)

\* the locals of make_query before its loop
MakeQueryStart ==
    [valid_query |-> TRUE, query_clauses |-> <<>>, message |-> NoMessage,
     status_code |-> 200, stop |-> "no", scanned |-> <<>>]

\* variant: the message of an earlier failure is kept
InvalidFieldKeepsFirst(st, field) ==
    [st EXCEPT !.message = IF @ = NoMessage THEN FieldMessage(field) ELSE @,
               !.status_code = 400, !.valid_query = FALSE]

\* the branch 'field not in table_keys': message, status 400, invalid
InvalidField(st, field) ==
    [st EXCEPT !.message = FieldMessage(field), !.status_code = 400,
               !.valid_query = FALSE]

\* variant: the clauses collected so far are dropped on failure
InvalidOperatorClears(st, operator) ==
    [st EXCEPT !.message = OperatorMessage(operator), !.status_code = 400,
               !.valid_query = FALSE, !.stop = "break", !.query_clauses = <<>>]

\* variant: the message of an earlier failure is kept
InvalidOperatorKeepsFirst(st, operator) ==
    [st EXCEPT !.message = IF @ = NoMessage THEN OperatorMessage(operator) ELSE @,
               !.status_code = 400, !.valid_query = FALSE, !.stop = "break"]

\* the IndexError branch: message, status 400, invalid, break
InvalidOperator(st, operator) ==
    [st EXCEPT !.message = OperatorMessage(operator), !.status_code = 400,
               !.valid_query = FALSE, !.stop = "break"]

Append1(st, query) == [st EXCEPT !.query_clauses = Append(@, query)]

\* one iteration of the loop over args_keys
ScanParam(keys, st0, p) ==
    LET fo == SplitKey(KeyOf(p))
        field == fo[1]
        operator == fo[2]
        query_value == ValueOf(p)
        st == [st0 EXCEPT !.scanned = Append(@, fo)]
    IN IF field \notin keys THEN InvalidField(st, field)
       ELSE IF operator = <<"in">> THEN Append1(st, InClause(field, query_value))
       ELSE IF operator = <<"within">>
       THEN LET w == WithinClause(field, query_value)
            IN IF w.ok THEN Append1(st, w.clause) ELSE [st EXCEPT !.stop = "raise"]
       ELSE IF StartsWith(operator, <<"time", U, "of", U, "day">>)
       THEN Append1(st, TimeOfDayClause(field, operator, query_value))
       ELSE LET a == ResolveAttr(operator)
            IN IF ~a.found THEN InvalidOperator(st, operator)
               ELSE Append1(st, AttrClause(field, a.attr, query_value))

RECURSIVE Scan(_, _, _)
\* the loop: stops at break and where an exception leaves the function
Scan(keys, st, args_keys) ==
    IF Len(args_keys) = 0 \/ st.stop # "no" THEN st
    ELSE Scan(keys, ScanParam(keys, st, Head(args_keys)), Tail(args_keys))

make_query(keys, raw_query_params) ==
    Scan(keys, MakeQueryStart, StripReserved(raw_query_params))

----------------------------------------------------------------------------
(* The callers: weather_stations and weather *)

\* the rows base_query.all() can return, by wban_code
DbResults == {<<>>, <<"14819">>, <<"14819", "94846", "14819">>}

NoQuery == [filters |-> <<>>, order_by |-> <<>>, limit |-> FALSE, offset |-> <<>>]

IsIntText(s) == Len(s) > 0 /\ \A i \in DOMAIN s : s[i] \in {"0", "1", "5"}

\* raw_query_params.get('offset'): the value text, '' when absent
OffsetOf(args) ==
    LET hits == {i \in DOMAIN args : KeyOf(args[i]) = <<"offset">>}
    IN IF hits = {} THEN <<>> ELSE ValueOf(args[CHOOSE i \in hits : TRUE]).s

\* for clause in query_clauses: base_query = base_query.filter(clause)
Filtered(q, clauses) == [q EXCEPT !.filters = @ \o clauses]

\* variant: the clauses are applied and the query run whatever valid_query says
StationsResponseUnguarded(r, rows) ==
    [status |-> IF r.valid_query THEN "ok" ELSE "error",
     query |-> Filtered(NoQuery, r.query_clauses), executed |-> TRUE, raised |-> FALSE,
     objects |-> [i \in DOMAIN rows |-> [wban_code |-> rows[i]]]]

\* weather_stations after make_query: the body under "if valid_query", nothing otherwise
StationsResponse(r, rows) ==
    IF r.valid_query
    THEN [status |-> "ok", query |-> Filtered(NoQuery, r.query_clauses), executed |-> TRUE,
          raised |-> FALSE,
          objects |-> [i \in DOMAIN rows |-> [wban_code |-> rows[i]]]]
    ELSE [status |-> "error", query |-> NoQuery, executed |-> FALSE, raised |-> FALSE,
          objects |-> <<>>]

\* the wban codes of rows in order of first appearance (weather_data's keys)
RECURSIVE StationIds(_)
StationIds(rows) ==
    IF Len(rows) = 0 THEN <<>>
    ELSE LET before == StationIds(SubSeq(rows, 1, Len(rows) - 1))
             last == rows[Len(rows)]
         IN IF \E i \in DOMAIN before : before[i] = last THEN before
            ELSE Append(before, last)

\* weather after make_query: the body under "if valid_query", nothing otherwise;
\* raised where int(offset) raises
WeatherResponse(table, args, r, rows) ==
    IF r.valid_query
    THEN LET ordered == [Filtered(NoQuery, r.query_clauses) EXCEPT
                            !.order_by = IF date \in WeatherColumns(table)
                                         THEN date ELSE datetime,
                            !.limit = TRUE]
             offset == OffsetOf(args)
         IN IF offset # <<>> /\ ~IsIntText(offset)
            THEN [status |-> "ok", query |-> ordered, executed |-> FALSE, raised |-> TRUE,
                  objects |-> <<>>]
            ELSE LET ids == StationIds(rows)
                 IN [status |-> "ok", query |-> [ordered EXCEPT !.offset = offset],
                     executed |-> TRUE, raised |-> FALSE,
                     objects |-> [i \in DOMAIN ids |->
                         [station_info |-> ids[i],
                          observations |-> Cardinality({j \in DOMAIN rows : rows[j] = ids[i]})]]]
    ELSE [status |-> "error", query |-> NoQuery, executed |-> FALSE, raised |-> FALSE,
          objects |-> <<>>]

\* no aggregation is running
AIdle ==
    /\ start_dt = <<>>
    /\ end_dt = <<>>
    /\ agg_unit = "none"
    /\ obs_table = {}
    /\ apc = "idle"
    /\ dt_range = <<>>
    /\ aggregates = <<>>
    /\ zero_unit = "none"
    /\ zeroed = <<>>
    /\ rezeroed = <<>>
    /\ feature_arg = <<>>
    /\ sensors_arg = <<>>
    /\ label_arg = "none"
    /\ eligible = {}
    /\ reflected = <<>>
    /\ selected = <<>>
    /\ queries = 0
    /\ results = <<>>
    /\ agg_error = "none"

\* no call of weather_fill is being served
FIdle ==
    /\ year_arg = <<>>
    /\ month_arg = <<>>
    /\ wbans_arg = <<>>
    /\ fpc = "idle"
    /\ fill_status = 0
    /\ fill_message = ""
    /\ queued = <<>>

\* no call of unknown_features_resolve is being served
UIdle ==
    /\ target_sensor = <<>>
    /\ unknown_feature = {}
    /\ unknowns_at_call = {}
    /\ unknownfeature = [exists |-> FALSE, rows |-> {}]
    /\ inserts = <<>>
    /\ upc = "idle"

QInit ==
    /\ AIdle
    /\ FIdle
    /\ UIdle
    /\ \E ix \in IndexSeqs : params = [i \in DOMAIN ix |-> ParamChoices[ix[i]]]
    /\ pc = "request"
    /\ handler = "none"
    /\ table_keys = {}
    /\ mq = "none"
    /\ scanned = <<>>
    /\ valid_query = TRUE
    /\ query_clauses = <<>>
    /\ message = NoMessage
    /\ status_code = 200
    /\ resp_status = "none"
    /\ objects = <<>>
    /\ base_query = NoQuery
    /\ executed = FALSE

\* what a handler leaves behind, given make_query's result r and its own response
Served(name, keys, r, resp) ==
    /\ UNCHANGED <<avars, fvars, uvars>>
    /\ handler' = name
    /\ table_keys' = keys
    /\ scanned' = r.scanned
    /\ UNCHANGED params
    /\ IF r.stop = "raise"
       THEN /\ mq' = "raised"
            /\ pc' = "raised"
            /\ UNCHANGED <<valid_query, query_clauses, message, status_code,
                           resp_status, objects, base_query, executed>>
       ELSE /\ mq' = "returned"
            /\ valid_query' = r.valid_query
            /\ query_clauses' = r.query_clauses
            /\ message' = r.message
            /\ status_code' = r.status_code
            /\ pc' = IF resp.raised THEN "raised" ELSE "responded"
            /\ resp_status' = resp.status
            /\ objects' = resp.objects
            /\ base_query' = resp.query
            /\ executed' = resp.executed

weather_stations ==
    /\ pc = "request"
    /\ LET r == make_query(StationsColumns, params)
       IN \E rows \in DbResults :
            Served("weather_stations", StationsColumns, r, StationsResponse(r, rows))

weather(table) ==
    /\ pc = "request"
    /\ LET r == make_query(WeatherColumns(table), params)
       IN \E rows \in DbResults :
            Served("weather", WeatherColumns(table), r,
                   WeatherResponse(table, params, r, rows))

QNext ==
    \/ weather_stations
    \/ \E table \in {"daily", "hourly"} : weather(table)

Spec == QInit /\ [][QNext]_vars

----------------------------------------------------------------------------
(* Properties of make_query and its callers                                *)
(*                                                                         *)
(* The operators below classify the parameters of a request from their     *)
(* keys and values alone, without make_query's own splitting and probing.  *)

\* the non-reserved parameters, in scan order
NR == SelectSeq(params, LAMBDA p : KeyOf(p) \notin ReservedKeys)

Vocabulary ==
    {<<"eq">>, <<"ne">>, <<"lt">>, <<"le">>, <<"gt">>, <<"ge">>, <<"in">>, <<"within">>,
     time_of_day("ge"), time_of_day("le")}

\* the keys that name a column of the table and carry no operator or one of the vocabulary
VocabularyKeys == table_keys \cup {K(c, o) : c \in table_keys, o \in Vocabulary}

\* the number of '__' separators in a key
SepCount(key) == Cardinality({i \in 1..(Len(key) - 1) : SubSeq(key, i, i + 1) = SEP})

\* field and operator of a key with exactly one '__'; the whole key and eq otherwise
FieldPart(key) ==
    IF SepCount(key) = 1 THEN SubSeq(key, 1, Find(key, SEP) - 1) ELSE key
OperatorPart(key) ==
    IF SepCount(key) = 1 THEN SubSeq(key, Find(key, SEP) + 2, Len(key)) ELSE <<"eq">>

\* field and operator as the text before and after the first '__'
FirstField(key) ==
    IF SepCount(key) = 0 THEN key ELSE SubSeq(key, 1, Find(key, SEP) - 1)
FirstOperator(key) ==
    IF SepCount(key) = 0 THEN <<"eq">> ELSE SubSeq(key, Find(key, SEP) + 2, Len(key))

\* a within operand whose payload resolves to a geometry that has a type
WellFormedWithin(v) ==
    /\ v.kind = "json"
    /\ LET o == v.obj
       IN IF "features" \in DOMAIN o
          THEN Len(o.features) > 0 /\ "type" \in DOMAIN o.features[1].geometry
          ELSE IF "geometry" \in DOMAIN o THEN "type" \in DOMAIN o.geometry
          ELSE "type" \in DOMAIN o

BadField(i) == FieldPart(KeyOf(NR[i])) \notin table_keys

\* an operator no branch of make_query takes and the column has no attribute for
Unresolvable(o) ==
    /\ o \notin {<<"in">>, <<"within">>}
    /\ ~StartsWith(o, <<"time", U, "of", U, "day">>)
    /\ {o, o \o <<U>>, SEP \o o \o SEP} \cap ColumnAttrs = {}

BadOperator(i) == ~BadField(i) /\ Unresolvable(OperatorPart(KeyOf(NR[i])))

Fails(i) == BadField(i) \/ BadOperator(i)

\* the last parameter scanned: the first with an unresolvable operator, else the last one
ScanEnd ==
    LET bad == {i \in DOMAIN NR : BadOperator(i)}
    IN IF bad = {} THEN Len(NR) ELSE CHOOSE i \in bad : \A j \in bad : i <= j

\* the position in query_clauses of the clause of parameter i, scanned without failure
ClauseIndex(i) == Cardinality({j \in 1..i : ~Fails(j)})

FailureMessage(i) ==
    IF BadField(i) THEN FieldMessage(FieldPart(KeyOf(NR[i])))
    ELSE OperatorMessage(OperatorPart(KeyOf(NR[i])))

\* C1 (as stated): every request whose non-reserved keys all name a column of the
\* table with an operator of the vocabulary gets valid_query = True, status 200 and
\* one non-null clause per non-reserved parameter, whatever the values are.
C1_VocabularyRequestIsValid ==
    (pc # "request" /\ \A i \in DOMAIN NR : KeyOf(NR[i]) \in VocabularyKeys)
        => /\ mq = "returned"
           /\ valid_query
           /\ status_code = 200
           /\ Len(query_clauses) = Len(NR)
           /\ \A i \in DOMAIN NR : query_clauses[i].kind # "None"

\* C1 (amended): the same, for requests whose within operands are JSON payloads
\* that resolve to a geometry with a type; the clause of each parameter is on the
\* column its key names.
C1_WellFormedVocabularyRequestIsValid ==
    (/\ pc # "request"
     /\ \A i \in DOMAIN NR :
            /\ KeyOf(NR[i]) \in VocabularyKeys
            /\ OperatorPart(KeyOf(NR[i])) = <<"within">> => WellFormedWithin(ValueOf(NR[i])))
        => /\ mq = "returned"
           /\ valid_query
           /\ status_code = 200
           /\ message = NoMessage
           /\ Len(query_clauses) = Len(NR)
           /\ \A i \in DOMAIN NR :
                /\ query_clauses[i].kind # "None"
                /\ query_clauses[i].column = FieldPart(KeyOf(NR[i]))

C1_Witness ==
    /\ pc = "responded"
    /\ Len(NR) = 2
    /\ \A i \in DOMAIN NR : KeyOf(NR[i]) \in VocabularyKeys
    /\ OperatorPart(KeyOf(NR[1])) = <<"within">>
    /\ OperatorPart(KeyOf(NR[2])) = <<"ge">>
    /\ valid_query
    /\ Len(query_clauses) = 2

C3_UnknownOperatorIsRejected ==
    mq = "returned" =>
        \A i \in DOMAIN NR :
            (~BadField(i) /\ OperatorPart(KeyOf(NR[i])) \notin Vocabulary)
                => /\ ~valid_query
                   /\ status_code = 400
                   /\ Len(query_clauses) < Len(NR)

\* C4: when make_query reports the query invalid, the caller filters on no clause,
\* runs no query and answers with status 'error' and no objects.
C4_InvalidQueryIsNotExecuted ==
    (mq = "returned" /\ ~valid_query)
        => /\ pc = "responded"
           /\ base_query.filters = <<>>
           /\ ~executed
           /\ resp_status = "error"
           /\ objects = <<>>

C4_Witness ==
    /\ pc = "responded"
    /\ ~valid_query
    /\ Len(query_clauses) > 0
    /\ resp_status = "error"

\* C5 (as stated): an invalid result carries no clause.
C5_InvalidResultHasNoClause ==
    (mq = "returned" /\ ~valid_query) => Len(query_clauses) = 0

\* C5 (amended): an invalid result still carries, in scan order, one clause for
\* every parameter scanned without failure: those with an existing column and a
\* resolvable operator, up to the first unresolvable operator, where the scan stops.
C5_InvalidResultKeepsScannedClauses ==
    (mq = "returned" /\ ~valid_query)
        => /\ Len(query_clauses) = Cardinality({i \in 1..ScanEnd : ~Fails(i)})
           /\ \A i \in 1..ScanEnd :
                ~Fails(i) =>
                    \/ query_clauses[ClauseIndex(i)].kind = "None"
                    \/ query_clauses[ClauseIndex(i)].column = FieldPart(KeyOf(NR[i]))

C5_Witness ==
    /\ mq = "returned"
    /\ ~valid_query
    /\ Len(NR) = 2
    /\ BadOperator(2)
    /\ Len(query_clauses) = 1

C7_SplitsAtFirstSeparator ==
    \A i \in DOMAIN scanned :
        scanned[i] = <<FirstField(KeyOf(NR[i])), FirstOperator(KeyOf(NR[i]))>>

\* C7 (amended): a key with exactly one '__' gives the field before it and the
\* operator after it; a key with no '__' or with two or more is taken whole as
\* the field, with operator eq.
C7_SplitsOnlyKeysWithOneSeparator ==
    /\ mq = "returned" => Len(scanned) = ScanEnd
    /\ \A i \in DOMAIN scanned :
        scanned[i] = <<FieldPart(KeyOf(NR[i])), OperatorPart(KeyOf(NR[i]))>>

C7_Witness ==
    /\ mq = "returned"
    /\ \E i \in DOMAIN scanned :
        /\ SepCount(KeyOf(NR[i])) = 2
        /\ scanned[i] = <<KeyOf(NR[i]), <<"eq">>>>
    /\ \E i \in DOMAIN scanned :
        /\ SepCount(KeyOf(NR[i])) = 1
        /\ scanned[i][2] # <<"eq">>

\* the parameters with operator in on an existing column that make_query scanned
InParams ==
    {i \in 1..ScanEnd : ~BadField(i) /\ OperatorPart(KeyOf(NR[i])) = <<"in">>}

RECURSIVE Join(_, _)
\* the parts written one after the other with sep between them
Join(parts, sep) ==
    IF Len(parts) = 0 THEN <<>>
    ELSE IF Len(parts) = 1 THEN parts[1]
    ELSE parts[1] \o sep \o Join(Tail(parts), sep)

\* the values of an in clause are the comma-separated items of the operand: they
\* hold no comma and joined by commas they give the operand back
ItemsOf(values, text) ==
    /\ Join(values, COMMA) = text
    /\ Len(values) >= 1
    /\ \A k \in DOMAIN values : \A n \in DOMAIN values[k] : values[k][n] # ","

\* C8 (as stated): the membership set of an in clause holds the comma-separated
\* values of the operand, and none at all for an empty operand.
C8_EmptyOperandGivesEmptySet ==
    mq = "returned" =>
        \A i \in InParams :
            LET c == query_clauses[ClauseIndex(i)]
                text == ValueOf(NR[i]).s
            IN /\ c.kind = "in"
               /\ IF text = <<>> THEN c.operand = <<>> ELSE ItemsOf(c.operand, text)

\* C8 (amended): the membership list of an in clause holds the comma-separated
\* items of the operand, empty items included; an empty operand gives the list
\* of the one empty string, and the parameter leaves the result valid.
C8_InClauseHoldsTheItems ==
    mq = "returned" =>
        /\ \A i \in InParams :
            LET c == query_clauses[ClauseIndex(i)]
                text == ValueOf(NR[i]).s
            IN /\ c.kind = "in"
               /\ c.column = FieldPart(KeyOf(NR[i]))
               /\ ItemsOf(c.operand, text)
               /\ text = <<>> => c.operand = << <<>> >>
        /\ (InParams # {} /\ Len(NR) = 1) => valid_query

C8_Witness ==
    /\ mq = "returned"
    /\ valid_query
    /\ \E i \in InParams :
        /\ ValueOf(NR[i]).s = <<>>
        /\ query_clauses[ClauseIndex(i)].operand = << <<>> >>

----------------------------------------------------------------------------
(* Datetimes: <<year, month, day, hour, minute, second, microsecond>> in t, *)
(* with the tzinfo beside it                                                *)

units == <<"year", "month", "day", "hour", "minute", "second", "microsecond">>

UnitIndex(unit) == CHOOSE i \in DOMAIN units : units[i] = unit

DT(t, tz) == [t |-> t, tzinfo |-> tz]

IsLeap(y) == (y % 4 = 0 /\ y % 100 # 0) \/ y % 400 = 0

DaysInMonth(y, m) ==
    IF m = 2 THEN (IF IsLeap(y) THEN 29 ELSE 28)
    ELSE IF m \in {4, 6, 9, 11} THEN 30 ELSE 31

\* a < b on naive datetimes
Lt(a, b) == \E i \in 1..7 : a[i] < b[i] /\ \A j \in 1..(i - 1) : a[j] = b[j]
Le(a, b) == a = b \/ Lt(a, b)

\* dt.replace(tzinfo=None)
StripTz(dt) == DT(dt.t, "None")

RECURSIVE AddTimedelta(_, _)
\* t + timedelta(**{unit + "s": 1}) for the units timedelta knows
AddTimedelta(t, unit) ==
    IF unit = "day"
    THEN IF t[3] < DaysInMonth(t[1], t[2]) THEN [t EXCEPT ![3] = @ + 1]
         ELSE IF t[2] < 12 THEN [t EXCEPT ![3] = 1, ![2] = @ + 1]
         ELSE [t EXCEPT ![3] = 1, ![2] = 1, ![1] = @ + 1]
    ELSE LET i == UnitIndex(unit)
             top == IF unit = "hour" THEN 23 ELSE IF unit = "microsecond" THEN 999999 ELSE 59
         IN IF t[i] < top THEN [t EXCEPT ![i] = @ + 1]
            ELSE AddTimedelta([t EXCEPT ![i] = 0], units[i - 1])

\* t + relativedelta(**{unit + "s": 1}) for months and years: the day is clipped
\* to the length of the month reached
AddRelativedelta(t, unit) ==
    LET y == IF unit = "year" \/ t[2] = 12 THEN t[1] + 1 ELSE t[1]
        m == IF unit = "year" THEN t[2] ELSE IF t[2] = 12 THEN 1 ELSE t[2] + 1
        d == IF t[3] > DaysInMonth(y, m) THEN DaysInMonth(y, m) ELSE t[3]
    IN [t EXCEPT ![1] = y, ![2] = m, ![3] = d]

\* current_datetime += timedelta(...), or relativedelta(...) on TypeError
Advance(t, unit) ==
    IF unit \in {"year", "month"} THEN AddRelativedelta(t, unit) ELSE AddTimedelta(t, unit)

RECURSIVE RangeLoopExclusive(_, _, _, _)
\* variant: the loop runs while current_datetime < end_datetime
RangeLoopExclusive(current_datetime, end, unit, range) ==
    IF Lt(current_datetime.t, end.t)
    THEN RangeLoopExclusive(DT(Advance(current_datetime.t, unit), current_datetime.tzinfo),
                            end, unit, Append(range, current_datetime))
    ELSE range

RECURSIVE RangeLoop(_, _, _, _)
\* the while loop of _generate_datetime_range
RangeLoop(current_datetime, end, unit, range) ==
    IF Le(current_datetime.t, end.t)
    THEN RangeLoop(DT(Advance(current_datetime.t, unit), current_datetime.tzinfo), end, unit,
                   Append(range, current_datetime))
    ELSE range

generate_datetime_range(start_datetime, end_datetime, unit) ==
    RangeLoop(StripTz(start_datetime), StripTz(end_datetime), unit, <<>>)

\* whether dt.replace(**{unit: v}) is accepted; ValueError otherwise
ReplaceAccepted(t, unit, v) ==
    IF unit = "month" THEN v \in 1..12
    ELSE IF unit = "day" THEN v \in 1..DaysInMonth(t[1], t[2])
    ELSE IF unit = "hour" THEN v \in 0..23
    ELSE IF unit = "microsecond" THEN v \in 0..999999
    ELSE v \in 0..59

RECURSIVE ZeroFrom(_, _)
\* the loop over units[i:]: a component that cannot be 0 is left as it is
ZeroFrom(t, i) ==
    IF i > Len(units) THEN t
    ELSE ZeroFrom(IF ReplaceAccepted(t, units[i], 0) THEN [t EXCEPT ![i] = 0] ELSE t, i + 1)

\* variant: the zeroing starts at the unit itself, i = units.index(unit)
zero_out_datetime_from_unit(dt, unit) == DT(ZeroFrom(dt.t, UnitIndex(unit)), dt.tzinfo)

\* _zero_out_datetime: the components after the unit are set to 0 where 0 is accepted
zero_out_datetime(dt, unit) == DT(ZeroFrom(dt.t, UnitIndex(unit) + 1), dt.tzinfo)

\* the database's date_trunc(unit, datetime)
date_trunc(unit, t) ==
    [i \in 1..7 |-> IF i <= UnitIndex(unit) THEN t[i] ELSE IF i \in {2, 3} THEN 1 ELSE 0]

----------------------------------------------------------------------------
(* The node's sensors, the feature tables and the columns of a request *)

DOT == <<".">>

\* str.lower(), for the upper-case letters the modelled texts hold
LowerChunk(c) == IF c = "X" THEN "x" ELSE IF c = "Y" THEN "y" ELSE c

Lower(s) == [i \in DOMAIN s |-> LowerChunk(s[i])]

time_bucket == <<"time", U, "bucket">>
count == <<"count">>
temperature == <<"temperature">>
internal_temperature == <<"internal", U, "temperature">>
magnetic_field == <<"magnetic", U, "field">>
particles == <<"particles">>
count_rate == <<"count", U, "rate">>

\* a row of sensor__sensors: the name and observed_properties.values()
Sensor(name, observed_properties) ==
    [name |-> name, observed_properties |-> observed_properties]

\* target_node.sensors of the node of the modelled calls
NodeSensors ==
    {Sensor(<<"TMP112">>, {temperature \o DOT \o temperature,
                           temperature \o DOT \o internal_temperature}),
     Sensor(<<"HMC5883L">>, {magnetic_field \o DOT \o <<"X">>,
                             magnetic_field \o DOT \o <<"Y">>}),
     Sensor(<<"OPCN2">>, {particles \o DOT \o count_rate})}

DoublePrecision == <<"DOUBLE PRECISION">>
Varchar == <<"VARCHAR", "(", "255", ")">>
Timestamp == <<"TIMESTAMP WITHOUT TIME ZONE">>

Col(name, type) == [name |-> name, type |-> type]

\* the columns every feature table starts with
MetaCols ==
    <<Col(<<"node", U, "id">>, Varchar), Col(datetime, Timestamp),
      Col(<<"meta", U, "id">>, DoublePrecision), Col(<<"sensor">>, Varchar)>>

\* the feature tables of the database
TableNames == {temperature, magnetic_field, particles}

\* table.c of the reflected table
TableColumns(name) ==
    IF name = temperature
    THEN MetaCols \o <<Col(temperature, DoublePrecision),
                       Col(internal_temperature, DoublePrecision)>>
    ELSE IF name = magnetic_field
    THEN MetaCols \o <<Col(<<"x">>, DoublePrecision), Col(<<"y">>, Varchar),
                       Col(<<"z">>, DoublePrecision)>>
    ELSE MetaCols \o <<Col(count_rate, DoublePrecision)>>

\* a value of target_feature_properties: None, or the list of properties
NoProperties == [none |-> TRUE, items |-> <<>>]
Properties(items) == [none |-> FALSE, items |-> items]

\* d[k] = v on a dict
Put(d, k, v) == [x \in (DOMAIN d) \cup {k} |-> IF x = k THEN v ELSE d[x]]

\* one pass of the loop over target_features: feature is the loop variable as the
\* pass leaves it, raised tells that None.append was attempted
FeatureStep(st, entry) ==
    LET parts == Split(entry, DOT)
    IN IF Len(parts) = 2
       THEN IF parts[1] \in DOMAIN st.properties
            THEN IF st.properties[parts[1]].none
                 THEN [st EXCEPT !.feature = parts[1], !.raised = TRUE]
                 ELSE [st EXCEPT !.feature = parts[1],
                                 !.properties = Put(@, parts[1],
                                     Properties(Append(@[parts[1]].items, parts[2])))]
            ELSE [st EXCEPT !.feature = parts[1],
                            !.properties = Put(@, parts[1], Properties(<<parts[2]>>))]
       ELSE [st EXCEPT !.feature = entry, !.properties = Put(@, entry, NoProperties)]

RECURSIVE FeatureLoop(_, _, _)
FeatureLoop(st, target_features, i) ==
    IF i > Len(target_features) \/ st.raised THEN st
    ELSE FeatureLoop(FeatureStep(st, target_features[i]), target_features, i + 1)

\* variant: the table is named by the first entry of the feature argument
TargetFeaturePropertiesFirst(feature) ==
    [FeatureLoop([properties |-> <<>>, feature |-> feature, raised |-> FALSE],
                 Split(feature, COMMA), 1) EXCEPT !.feature = Split(feature, COMMA)[1]]

\* the map of target features and properties, and the loop variable after the loop
TargetFeatureProperties(feature) ==
    FeatureLoop([properties |-> <<>>, feature |-> feature, raised |-> FALSE],
                Split(feature, COMMA), 1)

\* sensors.split(",") if sensors else None
TargetSensors(sensors) ==
    IF sensors # <<>> THEN [none |-> FALSE, items |-> Split(sensors, COMMA)]
    ELSE [none |-> TRUE, items |-> <<>>]

Items(list) == {list[i] : i \in DOMAIN list}

\* the sensors the sensor filter admits: all of them when there is no filter
Admitted(sensors, target_sensors) ==
    {s \in sensors : target_sensors.items # <<>> => s.name \in Items(target_sensors.items)}

\* variant: a property filter is compared with the lower-cased property
valid_columns_lowered(sensors, target_sensors, target_feature_properties) ==
    LET vals == UNION {s.observed_properties : s \in Admitted(sensors, target_sensors)}
        kept == {val \in vals :
                    LET current_feature == Split(val, DOT)[1]
                        current_property == Lower(Split(val, DOT)[2])
                    IN /\ current_feature \in DOMAIN target_feature_properties
                       /\ target_feature_properties[current_feature].items # <<>> =>
                            current_property \in
                                Items(target_feature_properties[current_feature].items)}
    IN {Lower(Split(val, DOT)[2]) : val \in kept}

\* _valid_columns: the lower-cased properties of the admitted sensors' mappings
\* that the target features and properties let through
valid_columns(sensors, target_sensors, target_feature_properties) ==
    LET vals == UNION {s.observed_properties : s \in Admitted(sensors, target_sensors)}
        kept == {val \in vals :
                    LET current_feature == Split(val, DOT)[1]
                        current_property == Split(val, DOT)[2]
                    IN /\ current_feature \in DOMAIN target_feature_properties
                       /\ target_feature_properties[current_feature].items # <<>> =>
                            current_property \in
                                Items(target_feature_properties[current_feature].items)}
    IN {Lower(Split(val, DOT)[2]) : val \in kept}

\* a select: its label, the function applied, its column and, for date_trunc, the unit
Select(label, fn, column, unit) == [label |-> label, fn |-> fn, column |-> column, unit |-> unit]

RECURSIVE ColumnSelects(_, _, _, _)
\* the loop over table.c of _generate_aggregate_selects, from column i on
ColumnSelects(cols, target_columns, agg_fn, i) ==
    IF i > Len(cols) THEN <<>>
    ELSE LET col == cols[i]
             skip == \/ col.name \in {MetaCols[j].name : j \in DOMAIN MetaCols}
                     \/ col.name \notin target_columns
                     \/ Split(col.type, <<"(">>)[1] # DoublePrecision
         IN (IF skip THEN <<>>
             ELSE <<Select(col.name, agg_fn, col.name, "none"),
                    Select(col.name \o <<U>> \o count, "count", col.name, "none")>>)
            \o ColumnSelects(cols, target_columns, agg_fn, i + 1)

generate_aggregate_selects(cols, target_columns, agg_fn, unit) ==
    <<Select(time_bucket, "date_trunc", datetime, unit)>>
        \o ColumnSelects(cols, target_columns, agg_fn, 1)

----------------------------------------------------------------------------
(* _apply_aggregates, _format_aggregates and aggregate *)

\* the rows of obs_table with datetimes[i] <= datetime < datetimes[i + 1]
Window(rows, lo, hi) == {r \in rows : Le(lo.t, r.datetime) /\ Lt(r.datetime, hi.t)}

\* one row of select(selects) ... group_by("time_bucket"), as the sequence of its
\* (key, value): the bucket, and for each selected column the statistic over the
\* group and the count of its non-null values
GroupRow(group, selects, bucket) ==
    LET unit == selects[1].unit
        members == {r \in group : date_trunc(unit, r.datetime) = bucket}
        values == {r \in members : r.reading # "NULL"}
    IN [i \in DOMAIN selects |->
            <<selects[i].label,
              IF selects[i].fn = "date_trunc" THEN [datetime |-> bucket]
              ELSE IF selects[i].fn = "count" THEN Cardinality(values)
              ELSE [agg_fn |-> selects[i].fn, column |-> selects[i].column,
                    over |-> {r.datetime : r \in values}]>>]

\* fetchall(): one row per distinct time_bucket, in an order the database chooses
Payloads(group, selects) ==
    LET buckets == {date_trunc(selects[1].unit, r.datetime) : r \in group}
        n == Cardinality(buckets)
    IN {[i \in 1..n |-> GroupRow(group, selects, order[i])] :
            order \in {f \in [1..n -> buckets] : \A i, j \in 1..n : i # j => f[i] # f[j]}}

\* datetimes[i].isoformat().split("+")[0]
Isoformat(dt) ==
    [text |-> "isoformat", t |-> dt.t,
     offset |-> IF dt.tzinfo = "None" THEN "" ELSE "dropped"]

\* the list holding the record that stands for a window without rows
EmptyPlaceholder(dt) == << << <<time_bucket, Isoformat(dt)>>, <<count, 0>> >> >>

RECURSIVE apply_aggregates(_, _, _, _)
\* the lists _apply_aggregates can return for windows i .. len(datetimes) - 1
apply_aggregates(rows, selects, datetimes, i) ==
    IF i > Len(datetimes) - 1 THEN {<<>>}
    ELSE LET payloads == Payloads(Window(rows, datetimes[i], datetimes[i + 1]), selects)
             rest == apply_aggregates(rows, selects, datetimes, i + 1)
         IN {(IF Len(payload) > 0 THEN payload ELSE EmptyPlaceholder(datetimes[i])) \o tail :
                payload \in payloads, tail \in rest}

\* agg.keys() and agg[key] of a row
Keys(agg) == {agg[i][1] : i \in DOMAIN agg}
Get(agg, key) == agg[CHOOSE i \in DOMAIN agg : agg[i][1] = key][2]

\* aggregate_json[outer][inner] = v on a defaultdict(dict)
PutIn(d, outer, inner, v) ==
    Put(d, outer, Put(IF outer \in DOMAIN d THEN d[outer] ELSE <<>>, inner, v))

\* one pass of the loop over agg.keys() of _format_aggregates
FormatKey(aggregate_json, key, value, agg_label) ==
    IF key = time_bucket THEN Put(aggregate_json, time_bucket, value)
    ELSE IF key = count THEN Put(aggregate_json, count, value)
    ELSE IF Find(key, count) # 0
    THEN PutIn(aggregate_json, Split(key, <<U>>)[1], count, value)
    ELSE PutIn(aggregate_json, key, agg_label, value)

RECURSIVE FormatRow(_, _, _, _)
FormatRow(aggregate_json, agg, i, agg_label) ==
    IF i > Len(agg) THEN aggregate_json
    ELSE FormatRow(FormatKey(aggregate_json, agg[i][1], agg[i][2], agg_label),
                   agg, i + 1, agg_label)

format_aggregates(aggs, agg_label) ==
    [i \in DOMAIN aggs |-> FormatRow(<<>>, aggs[i], 1, agg_label)]

\* the statistic each label of aggregate_fn_map stands for
aggregate_fn_map == [avg |-> "avg", std |-> "stddev", var |-> "variance"]

RECURSIVE AdvanceBy(_, _, _)
AdvanceBy(t, unit, k) == IF k = 0 THEN t ELSE AdvanceBy(Advance(t, unit), unit, k - 1)

\* the start datetimes of the modelled calls
Starts ==
    {<<2016, 1, 31, 22, 30, 15, 500000>>,
     <<2016, 2, 29, 0, 0, 0, 0>>,
     <<2015, 12, 31, 23, 59, 59, 999999>>,
     <<2016, 1, 1, 0, 0, 0, 0>>}

AggUnits == {"year", "month", "day", "hour", "minute", "second"}

\* the end datetimes of the modelled calls: k whole units after start, with or
\* without one finer unit more, or before start
Ends(t, unit) ==
    {AdvanceBy(t, unit, k) : k \in 0..MaxSteps}
        \cup {Advance(AdvanceBy(t, unit, k), units[UnitIndex(unit) + 1]) : k \in 0..MaxSteps}
        \cup {<<t[1] - 1, 1, 1, 0, 0, 0, 0>>}

\* the rows a modelled table is drawn from, around the first two windows
RowChoices(t, unit) ==
    LET first == ZeroFrom(t, UnitIndex(unit) + 1)
        second == Advance(first, unit)
    IN {[datetime |-> first, reading |-> "21.5"],
        [datetime |-> t, reading |-> "22.5"],
        [datetime |-> date_trunc(unit, second), reading |-> "23.5"],
        [datetime |-> Advance(second, units[UnitIndex(unit) + 1]), reading |-> "NULL"]}

Request(feature, sensors, agg_label) ==
    [feature |-> feature, sensors |-> sensors, agg_label |-> agg_label]

\* the feature and sensors arguments and the labels of the modelled calls
Requests ==
    {Request(temperature, <<>>, "avg"),
     Request(temperature \o DOT \o temperature, <<"BOGUS", ",", "TMP112">>, "std"),
     Request(temperature \o COMMA \o magnetic_field, <<>>, "var"),
     Request(magnetic_field \o COMMA \o temperature, <<"TMP112">>, "avg"),
     Request(temperature \o COMMA \o magnetic_field, <<"TMP112">>, "avg"),
     Request(magnetic_field \o DOT \o <<"X">>, <<"HMC5883L">>, "std"),
     Request(magnetic_field \o DOT \o <<"x">>, <<>>, "avg"),
     Request(temperature, <<"HMC5883L">>, "avg"),
     Request(<<"bogus">>, <<>>, "avg"),
     Request(temperature \o COMMA \o <<"bogus">>, <<>>, "avg"),
     Request(temperature \o COMMA \o temperature \o DOT \o temperature, <<>>, "avg"),
     Request(temperature \o DOT \o temperature \o COMMA \o temperature, <<>>, "var"),
     Request(particles, <<>>, "avg"),
     Request(particles \o COMMA \o particles \o DOT \o count_rate, <<"TMP112">>, "avg"),
     Request(temperature \o DOT \o internal_temperature \o COMMA
                \o magnetic_field \o DOT \o <<"X">>, <<"TMP112", ",", "HMC5883L">>, "var"),
     Request(magnetic_field \o DOT \o <<"X">> \o COMMA \o magnetic_field \o DOT \o <<"Y">>,
             <<>>, "std")}

\* no request is being served
QIdle ==
    /\ params = <<>>
    /\ pc = "idle"
    /\ handler = "none"
    /\ table_keys = {}
    /\ mq = "none"
    /\ scanned = <<>>
    /\ valid_query = TRUE
    /\ query_clauses = <<>>
    /\ message = NoMessage
    /\ status_code = 200
    /\ resp_status = "none"
    /\ objects = <<>>
    /\ base_query = NoQuery
    /\ executed = FALSE

AInit ==
    /\ QIdle
    /\ FIdle
    /\ UIdle
    /\ \E t \in Starts, tz \in {"None", "+05:00"} :
        /\ start_dt = DT(t, tz)
        /\ agg_unit \in AggUnits
        /\ \E e \in Ends(t, agg_unit) : end_dt = DT(e, tz)
        /\ obs_table \in SUBSET RowChoices(t, agg_unit)
    /\ apc = "args"
    /\ dt_range = <<>>
    /\ aggregates = <<>>
    /\ zero_unit = "none"
    /\ zeroed = <<>>
    /\ rezeroed = <<>>
    /\ feature_arg = <<>>
    /\ sensors_arg = <<>>
    /\ label_arg = "none"
    /\ eligible = {}
    /\ reflected = <<>>
    /\ selected = <<>>
    /\ queries = 0
    /\ results = <<>>
    /\ agg_error = "none"

\* a call of _generate_datetime_range(start_dt, end_dt, agg_unit)
call_generate_datetime_range ==
    /\ apc = "args"
    /\ dt_range' = generate_datetime_range(start_dt, end_dt, agg_unit)
    /\ apc' = "ranged"
    /\ UNCHANGED <<start_dt, end_dt, agg_unit, obs_table, aggregates, zvars, rvars>>
    /\ UNCHANGED <<qvars, fvars, uvars>>

\* a call of _zero_out_datetime(start_dt, unit) for a unit of its list, and a
\* second call on what the first returned
call_zero_out_datetime ==
    /\ apc = "args"
    /\ \E unit \in {units[i] : i \in DOMAIN units} :
        /\ zero_unit' = unit
        /\ zeroed' = zero_out_datetime(start_dt, unit)
        /\ rezeroed' = zero_out_datetime(zero_out_datetime(start_dt, unit), unit)
    /\ apc' = "zeroed"
    /\ UNCHANGED <<start_dt, end_dt, agg_unit, obs_table, dt_range, aggregates, rvars>>
    /\ UNCHANGED <<qvars, fvars, uvars>>

\* aggregate raises: what it had computed by then stays, nothing else is produced
Raises(error, cols, tables) ==
    /\ agg_error' = error
    /\ eligible' = cols
    /\ reflected' = tables
    /\ apc' = "failed"
    /\ UNCHANGED <<selected, queries, results, dt_range, aggregates>>

ContradictoryFilters == "Your query returns no results"

\* aggregate(args, agg_label, agg_fn) for a label of aggregate_fn_map
aggregate ==
    /\ apc = "args"
    /\ \E req \in Requests :
        LET start == zero_out_datetime(start_dt, agg_unit)
            target_sensors == TargetSensors(req.sensors)
            target == TargetFeatureProperties(req.feature)
            cols == valid_columns(NodeSensors, target_sensors, target.properties)
            name == Split(target.feature, DOT)[1]
            selects == generate_aggregate_selects(TableColumns(name), cols,
                                                  aggregate_fn_map[req.agg_label], agg_unit)
            datetimes == generate_datetime_range(start, end_dt, agg_unit)
        IN /\ feature_arg' = req.feature
           /\ sensors_arg' = req.sensors
           /\ label_arg' = req.agg_label
           /\ IF target.raised THEN Raises("AttributeError", {}, <<>>)
              ELSE IF cols = {} THEN Raises(ContradictoryFilters, cols, <<>>)
              ELSE IF name \notin TableNames THEN Raises("NoSuchTableError", cols, <<name>>)
              ELSE /\ eligible' = cols
                   /\ reflected' = <<name>>
                   /\ selected' = selects
                   /\ dt_range' = datetimes
                   /\ queries' = IF Len(datetimes) > 1 THEN Len(datetimes) - 1 ELSE 0
                   /\ \E aggs \in apply_aggregates(obs_table, selects, datetimes, 1) :
                        /\ aggregates' = aggs
                        /\ results' = format_aggregates(aggs, <<req.agg_label>>)
                   /\ agg_error' = "none"
                   /\ apc' = "aggregated"
    /\ UNCHANGED <<start_dt, end_dt, agg_unit, obs_table, zvars>>
    /\ UNCHANGED <<qvars, fvars, uvars>>

ANext ==
    \/ call_generate_datetime_range
    \/ call_zero_out_datetime
    \/ aggregate

SpecAgg == AInit /\ [][ANext]_vars

----------------------------------------------------------------------------
(* weather_fill *)

\* a request argument: absent (None), or its text as the sequence of its characters
Absent == [given |-> FALSE, s |-> <<>>]
Text(s) == [given |-> TRUE, s |-> s]

Digits == <<"0", "1", "2", "3", "4", "5", "6", "7", "8", "9">>

DigitValue(c) == (CHOOSE i \in DOMAIN Digits : Digits[i] = c) - 1

RECURSIVE StripSpaces(_)
\* str.strip() for blanks
StripSpaces(s) ==
    IF s # <<>> /\ Head(s) = " " THEN StripSpaces(Tail(s))
    ELSE IF s # <<>> /\ s[Len(s)] = " " THEN StripSpaces(SubSeq(s, 1, Len(s) - 1))
    ELSE s

RECURSIVE DecimalValue(_)
DecimalValue(body) ==
    IF body = <<>> THEN 0
    ELSE 10 * DecimalValue(SubSeq(body, 1, Len(body) - 1)) + DigitValue(body[Len(body)])

\* int(text): blanks around, an optional sign, then digits; ok = FALSE on ValueError
ParseInt(s) ==
    LET stripped == StripSpaces(s)
        signed == stripped # <<>> /\ Head(stripped) \in {"-", "+"}
        body == IF signed THEN Tail(stripped) ELSE stripped
        ok == body # <<>> /\ \A i \in DOMAIN body : body[i] \in Items(Digits)
    IN [ok |-> ok,
        value |-> IF ~ok THEN 0
                  ELSE IF signed /\ Head(stripped) = "-" THEN 0 - DecimalValue(body)
                  ELSE DecimalValue(body)]

\* _string_in_int_range: the integer, or False as [ok |-> FALSE]
string_in_int_range(maybe_int, int_range) ==
    IF ~maybe_int.given \/ maybe_int.s = <<>> THEN [ok |-> FALSE, value |-> 0]
    ELSE IF ~ParseInt(maybe_int.s).ok THEN [ok |-> FALSE, value |-> 0]
    ELSE IF ParseInt(maybe_int.s).value \in int_range THEN ParseInt(maybe_int.s)
    ELSE [ok |-> FALSE, value |-> 0]

\* variant: the years the docstring of year_if_valid names, 2000 to 2020
valid_years_to_2020 == {n + 2000 : n \in 0..20}

valid_years == {n + 2000 : n \in 0..19}

valid_months == {n + 1 : n \in 0..11}

year_if_valid(year_str) == string_in_int_range(year_str, valid_years)

month_if_valid(month_str) == string_in_int_range(month_str, valid_months)

\* the wban_code values of the weather_stations table
Stations == {<<"1", "4", "8", "1", "9">>, <<"9", "4", "8", "4", "6">>}

\* wban_is_valid: db_error tells that the lookup raised SQLAlchemyError
wban_is_valid(wban, db_error) ==
    IF wban = <<>> THEN FALSE
    ELSE IF db_error THEN FALSE
    ELSE wban \in Stations

\* wban_list_if_valid: False as [ok |-> FALSE], else the candidates found valid;
\* errors is the set of the candidates' positions whose lookup raised
wban_list_if_valid(wban_list_str, errors) ==
    IF ~wban_list_str.given \/ wban_list_str.s = <<>> THEN [ok |-> FALSE, list |-> <<>>]
    ELSE LET wban_candidate_list == Split(wban_list_str.s, COMMA)
         IN [ok |-> TRUE,
             list |-> SelectSeq([i \in DOMAIN wban_candidate_list |->
                                    [w |-> wban_candidate_list[i],
                                     valid |-> wban_is_valid(wban_candidate_list[i],
                                                             i \in errors)]],
                                LAMBDA c : c.valid)]

\* the arguments of the modelled calls
YearChoices ==
    {Absent, Text(<<>>), Text(<<"1", "9", "9", "9">>), Text(<<"2", "0", "0", "0">>),
     Text(<<"2", "0", "1", "9">>), Text(<<"2", "0", "2", "0">>), Text(<<"2", "k">>),
     Text(<<" ", "2", "0", "0", "5">>), Text(<<"-", "2", "0", "0", "5">>)}

MonthChoices ==
    {Absent, Text(<<"0">>), Text(<<"1">>), Text(<<"1", "2">>), Text(<<"1", "3">>),
     Text(<<"x">>), Text(<<"0", "7">>)}

WbanChoices ==
    {Absent, Text(<<>>), Text(<<"1", "4", "8", "1", "9">>),
     Text(<<"1", "4", "8", "1", "9", ",", "9", "9", "9", "9", "9">>),
     Text(<<"9", "9", "9", "9", "9">>), Text(<<",">>),
     Text(<<"9", "4", "8", "4", "6", ",", ",", "1", "4", "8", "1", "9">>)}

FInit ==
    /\ QIdle
    /\ AIdle
    /\ UIdle
    /\ year_arg \in YearChoices
    /\ month_arg \in MonthChoices
    /\ wbans_arg \in WbanChoices
    /\ fpc = "request"
    /\ fill_status = 0
    /\ fill_message = ""
    /\ queued = <<>>

\* return make_error(message, 400)
make_error(msg) ==
    /\ fill_status' = 400
    /\ fill_message' = msg
    /\ UNCHANGED queued

weather_fill ==
    /\ fpc = "request"
    /\ LET year == year_if_valid(year_arg)
           month == month_if_valid(month_arg)
       IN IF ~year.ok THEN make_error("Must supply a year between 2000 and 2019")
          ELSE IF ~month.ok
          THEN make_error("Must supply month as number between 1 and 12")
          ELSE \E errors \in SUBSET (DOMAIN Split(wbans_arg.s, COMMA)) :
                LET wbans == wban_list_if_valid(wbans_arg, errors)
                IN IF ~wbans.ok \/ wbans.list = <<>>
                   THEN make_error("WBAN list misformatted or no WBANS provided are available")
                   ELSE /\ queued' = Append(queued,
                                [month |-> month.value, year |-> year.value,
                                 wbans |-> [i \in DOMAIN wbans.list |-> wbans.list[i].w]])
                        /\ fill_status' = 200
                        /\ fill_message' = "Successfully queued weather update."
    /\ fpc' = "responded"
    /\ UNCHANGED <<year_arg, month_arg, wbans_arg>>
    /\ UNCHANGED <<qvars, avars, uvars>>

FNext == weather_fill

SpecFill == FInit /\ [][FNext]_vars

----------------------------------------------------------------------------
(* unknown_features_resolve and map_unknown_to_foi *)

humidity == <<"humidity">>

\* sensor__sensors.observed_properties of a sensor: raw key -> feature.property
ObservedProperties(sensor) ==
    IF sensor = <<"TMP112">>
    THEN [t |-> temperature \o DOT \o temperature, h |-> humidity \o DOT \o humidity]
    ELSE [x |-> magnetic_field \o DOT \o <<"X">>]

\* the feature tables the mappings name
FoiNames == {temperature, humidity, magnetic_field}

\* a row of unknown_feature; data is the sequence of the (key, value) of its JSON
Unknown(sensor, dt, data) ==
    [node_id |-> "node1", datetime |-> dt, node_config |-> "config1", sensor |-> sensor,
     data |-> data]

\* the rows a modelled unknown_feature table is drawn from
UnknownChoices ==
    {Unknown(<<"TMP112">>, 1, << <<"t", 21>> >>),
     Unknown(<<"TMP112">>, 2, << <<"t", 22>>, <<"h", 40>> >>),
     Unknown(<<"TMP112">>, 3, << <<"t", 23>>, <<"q", 1>> >>),
     Unknown(<<"HMC5883L">>, 1, << <<"x", 5>> >>),
     Unknown(<<"TMP112">>, 4, <<>>),
     Unknown(<<"TMP112">>, 1, << <<"q", 9>> >>)}

\* what the where clause of the delete compares
Identity(row) == <<row.node_id, row.datetime, row.node_config, row.sensor>>

\* loads(unknown.data).keys()
DataKeys(data) == {data[i][1] : i \in DOMAIN data}

\* the keys of foi_insert_vals
Fois(data, sensor_properties) ==
    {Split(sensor_properties[data[i][1]], DOT)[1] : i \in DOMAIN data}

\* foi_insert_vals[foi]: the (prop, value) of the items whose mapping names foi
InsertVals(data, sensor_properties, foi) ==
    LET items == SelectSeq(data, LAMBDA kv : Split(sensor_properties[kv[1]], DOT)[1] = foi)
    IN [i \in DOMAIN items |-> <<Split(sensor_properties[items[i][1]], DOT)[2], items[i][2]>>]

RECURSIVE MapFois(_, _, _, _, _)
\* the loop over foi_insert_vals.items(), in the order fois, from position i: the
\* insert, then the delete, which raises when there is no table unknownfeature
MapFois(st, unknown, sensor_properties, fois, i) ==
    IF i > Len(fois) \/ st.raised THEN st
    ELSE LET insert == [into |-> fois[i], node_id |-> unknown.node_id,
                        datetime |-> unknown.datetime,
                        node_config |-> unknown.node_config, sensor |-> unknown.sensor,
                        columns |-> InsertVals(unknown.data, sensor_properties, fois[i])]
             inserted == [st EXCEPT !.inserts = Append(@, insert)]
             deleted == IF ~st.unknownfeature.exists THEN [inserted EXCEPT !.raised = TRUE]
                        ELSE [inserted EXCEPT !.unknownfeature.rows =
                                {r \in @ : Identity(r) # Identity(unknown)}]
         IN MapFois(deleted, unknown, sensor_properties, fois, i + 1)

\* foi_order: the order in which a dict yields the feature tables
map_unknown_to_foi(st, unknown, sensor_properties, foi_order) ==
    MapFois(st, unknown, sensor_properties,
            SelectSeq(foi_order, LAMBDA f : f \in Fois(unknown.data, sensor_properties)), 1)

RECURSIVE ResolveLoop(_, _, _, _, _)
\* the loop over target_unknowns from position i
ResolveLoop(st, target_unknowns, sensor_properties, foi_order, i) ==
    IF i > Len(target_unknowns) \/ st.raised THEN st
    ELSE LET unknown == target_unknowns[i]
         IN ResolveLoop(IF DataKeys(unknown.data) \subseteq DOMAIN sensor_properties
                        THEN map_unknown_to_foi(st, unknown, sensor_properties, foi_order)
                        ELSE st,
                        target_unknowns, sensor_properties, foi_order, i + 1)

\* the orders in which the elements of a set can be listed
Orders(S) ==
    {f \in [1..Cardinality(S) -> S] : \A i, j \in 1..Cardinality(S) : i # j => f[i] # f[j]}

UInit ==
    /\ QIdle
    /\ AIdle
    /\ FIdle
    /\ target_sensor \in {<<"TMP112">>, <<"HMC5883L">>}
    /\ unknown_feature \in SUBSET UnknownChoices
    /\ unknowns_at_call = unknown_feature
    /\ unknownfeature \in {[exists |-> FALSE, rows |-> {}], [exists |-> TRUE, rows |-> {}],
                            [exists |-> TRUE,
                             rows |-> {Unknown(<<"TMP112">>, 1, << <<"t", 21>> >>),
                                       Unknown(<<"TMP112">>, 3, << <<"t", 23>>, <<"q", 1>> >>)}]}
    /\ inserts = <<>>
    /\ upc = "request"

\* unknown_features_resolve(target_sensor): the rows are read from unknown_feature
\* in an order the database chooses
unknown_features_resolve ==
    /\ upc = "request"
    /\ LET sensor_properties == ObservedProperties(target_sensor)
           targets == {u \in unknown_feature : u.sensor = target_sensor}
       IN \E target_unknowns \in Orders(targets), foi_order \in Orders(FoiNames) :
            LET st == ResolveLoop([inserts |-> <<>>, unknownfeature |-> unknownfeature,
                                   raised |-> FALSE],
                                  target_unknowns, sensor_properties, foi_order, 1)
            IN /\ inserts' = st.inserts
               /\ unknownfeature' = st.unknownfeature
               /\ upc' = IF st.raised THEN "raised" ELSE "resolved"
    /\ UNCHANGED <<target_sensor, unknown_feature, unknowns_at_call>>
    /\ UNCHANGED <<qvars, avars, fvars>>

UNext == unknown_features_resolve

SpecResolve == UInit /\ [][UNext]_vars

----------------------------------------------------------------------------
(* Properties of the bucket boundaries and of the records per window *)

\* every element is before the next one
StrictlyIncreasing(b) == \A i \in 1..(Len(b) - 1) : Lt(b[i].t, b[i + 1].t)

\* C9 (as stated, for a start that is not after end): the range is not empty and
\* strictly increasing, starts at start and ends at or after end.
C9_RangeReachesEnd ==
    (apc = "ranged" /\ Le(start_dt.t, end_dt.t)) =>
        /\ Len(dt_range) >= 1
        /\ StrictlyIncreasing(dt_range)
        /\ dt_range[1].t = start_dt.t
        /\ Le(end_dt.t, dt_range[Len(dt_range)].t)

\* C9 (amended): the range is a strictly increasing sequence of naive datetimes;
\* it is empty when start is after end, and otherwise starts at start and ends at
\* the last step that is not after end: one unit more would pass end.
C9_RangeStopsAtEnd ==
    apc = "ranged" =>
        /\ StrictlyIncreasing(dt_range)
        /\ \A i \in DOMAIN dt_range : dt_range[i].tzinfo = "None"
        /\ Lt(end_dt.t, start_dt.t) => dt_range = <<>>
        /\ Le(start_dt.t, end_dt.t) =>
            /\ Len(dt_range) >= 1
            /\ dt_range[1].t = start_dt.t
            /\ Le(dt_range[Len(dt_range)].t, end_dt.t)
            /\ Lt(end_dt.t, Advance(dt_range[Len(dt_range)].t, agg_unit))

C9_Witness ==
    /\ apc = "ranged"
    /\ agg_unit = "month"
    /\ Len(dt_range) = 3
    /\ dt_range[1].t = start_dt.t
    /\ Lt(dt_range[3].t, end_dt.t)

\* C10: for a range of at least one boundary, the aggregates hold exactly one record
\* per window [datetimes[i], datetimes[i + 1]), a window without rows giving the
\* placeholder with count = 0 and no statistic.
C10_OneRecordPerWindow ==
    (apc = "aggregated" /\ Len(dt_range) >= 1) =>
        /\ Len(aggregates) = Len(dt_range) - 1
        /\ \A i \in 1..(Len(dt_range) - 1) :
            Window(obs_table, dt_range[i], dt_range[i + 1]) = {}
                => /\ Keys(aggregates[i]) = {time_bucket, count}
                   /\ Get(aggregates[i], count) = 0

\* C11: every boundary generated from the zeroed start equals its own truncation
\* to the unit, so that a window lies inside one date_trunc(unit) bucket; this
\* for every unit from year to second and every start.
C11_BoundariesAreTruncated ==
    apc = "aggregated" =>
        \A i \in DOMAIN dt_range : dt_range[i].t = date_trunc(agg_unit, dt_range[i].t)

\* C12: _zero_out_datetime is idempotent, and it leaves the component named by
\* the unit, every coarser component and the tzinfo as they were.
C12_ZeroOutIsIdempotent ==
    apc = "zeroed" =>
        /\ rezeroed = zeroed
        /\ zeroed.tzinfo = start_dt.tzinfo
        /\ \A i \in 1..UnitIndex(zero_unit) : zeroed.t[i] = start_dt.t[i]

C12_Witness ==
    /\ apc = "zeroed"
    /\ zero_unit = "month"
    /\ start_dt.t = <<2016, 1, 31, 22, 30, 15, 500000>>
    /\ zeroed.t = <<2016, 1, 31, 0, 0, 0, 0>>
    /\ rezeroed = zeroed

----------------------------------------------------------------------------
(* Properties of the geometry of a within clause *)

\* the parameters with operator within on an existing column that make_query scanned
WithinParams ==
    {i \in 1..ScanEnd : ~BadField(i) /\ OperatorPart(KeyOf(NR[i])) = <<"within">>}

\* the geometry a payload carries: of its first feature, its own, or the payload
GeometryOf(o) ==
    IF "features" \in DOMAIN o THEN o.features[1].geometry
    ELSE IF "geometry" \in DOMAIN o THEN o.geometry
    ELSE o

\* C16: the geometry handed to the containment predicate is the geometry of the
\* payload with the EPSG:4326 crs attached and nothing else changed, except that
\* a LineString is replaced by a Polygon; it is never a LineString.
C16_WithinGeometryCarriesCrs ==
    mq = "returned" =>
        \A i \in WithinParams :
            LET c == query_clauses[ClauseIndex(i)]
                g == GeometryOf(ValueOf(NR[i]).obj)
            IN /\ c.kind = "within"
               /\ c.column = FieldPart(KeyOf(NR[i]))
               /\ c.attr = <<"ST", U, "Within">>
               /\ c.operand.crs = EPSG4326
               /\ c.operand.type # "LineString"
               /\ IF g.type = "LineString"
                  THEN /\ c.operand.type = "Polygon"
                       /\ c.operand.coordinates # g.coordinates
                  ELSE /\ DOMAIN c.operand = DOMAIN g \cup {"crs"}
                       /\ \A k \in DOMAIN g \ {"crs"} : c.operand[k] = g[k]

C16_Witness ==
    /\ mq = "returned"
    /\ \E i \in WithinParams :
        /\ ValueOf(NR[i]) = Json(FeatureCollection(<<Feature(LineString)>>))
        /\ query_clauses[ClauseIndex(i)].operand.type = "Polygon"
        /\ query_clauses[ClauseIndex(i)].operand.crs = EPSG4326

----------------------------------------------------------------------------
(* Properties of the eligible columns, the selects and the formatted records *)

\* the entries of the comma-separated feature argument, the features they name
\* and the names of the sensors argument
Entries == Items(Split(feature_arg, COMMA))
FeatureOf(entry) == IF Find(entry, DOT) = 0 THEN entry ELSE SubSeq(entry, 1, Find(entry, DOT) - 1)
PropertyOf(entry) == SubSeq(entry, Find(entry, DOT) + 1, Len(entry))
SensorFilter == IF sensors_arg = <<>> THEN {} ELSE Items(Split(sensors_arg, COMMA))

\* the sensors attached to the node that the sensor filter admits
AdmittedSensors == {s \in NodeSensors : SensorFilter # {} => s.name \in SensorFilter}

\* C13: when no admitted sensor of the node declares a mapping into a requested
\* feature, aggregate fails with the contradictory-filters error on an empty
\* column set, and no table is reflected and no bucket query executed.
C13_NoMappingIsContradictory ==
    (/\ apc \in {"aggregated", "failed"}
     /\ \A s \in AdmittedSensors : \A val \in s.observed_properties :
            FeatureOf(val) \notin {FeatureOf(e) : e \in Entries})
        => /\ agg_error = ContradictoryFilters
           /\ eligible = {}
           /\ reflected = <<>>
           /\ queries = 0
           /\ results = <<>>

\* C14: whenever _valid_columns is called, it returns exactly the lower-cased
\* properties p of the mappings f.p of the admitted sensors such that f is a key
\* of the target features and either no property list is held for f or p is in it.
C14_ValidColumnsAreTheMappedProperties ==
    (apc \in {"aggregated", "failed"} /\ agg_error # "AttributeError") =>
        LET filter == TargetFeatureProperties(feature_arg).properties
        IN eligible =
            {Lower(PropertyOf(val)) :
                val \in {v \in UNION {s.observed_properties : s \in AdmittedSensors} :
                            /\ FeatureOf(v) \in DOMAIN filter
                            /\ \/ filter[FeatureOf(v)].none
                               \/ PropertyOf(v) \in Items(filter[FeatureOf(v)].items)}}

C14_Witness ==
    /\ apc = "aggregated"
    /\ feature_arg = magnetic_field \o DOT \o <<"X">>
    /\ sensors_arg = <<"HMC5883L">>
    /\ eligible = {<<"x">>}

\* the columns the aggregate statistics were selected for
SelectedColumns == {selected[i].column : i \in 2..Len(selected)}

\* C15: every formatted record of a database row holds, for every selected column
\* c, the statistic under record[c][agg_label] and the column's count under
\* record[c]["count"], and has no top-level key besides time_bucket, count and
\* the selected columns.
C15_StatisticAndCountUnderTheColumn ==
    apc = "aggregated" =>
        \A i \in DOMAIN results :
            count \notin Keys(aggregates[i]) =>
                /\ DOMAIN results[i] \subseteq {time_bucket, count} \cup SelectedColumns
                /\ \A c \in SelectedColumns :
                    /\ c \in DOMAIN results[i]
                    /\ DOMAIN results[i][c] = {<<label_arg>>, count}
                    /\ results[i][c][<<label_arg>>] = Get(aggregates[i], c)
                    /\ results[i][c][count] = Get(aggregates[i], c \o <<U>> \o count)

\* the instant a formatted record gives as its time bucket
BucketOf(record) ==
    IF "text" \in DOMAIN record[time_bucket] THEN record[time_bucket].t
    ELSE record[time_bucket].datetime

\* C17: the records aggregate returns are in strictly ascending order of time
\* bucket, rows and placeholders alike.
C17_RecordsAscend ==
    apc = "aggregated" =>
        \A i \in 1..(Len(results) - 1) : Lt(BucketOf(results[i]), BucketOf(results[i + 1]))

\* C20: aggregate reflects exactly one table, the one the last entry of the
\* feature argument names; the eligible columns are those of all the entries
\* together; an eligible column that the table does not have gives no select and
\* no key of a record.
C20_LastFeatureNamesTheTable ==
    LET entries == Split(feature_arg, COMMA)
        last == FeatureOf(entries[Len(entries)])
        absent == eligible \
                    {TableColumns(last)[j].name : j \in DOMAIN TableColumns(last)}
    IN /\ Len(reflected) <= 1
       /\ reflected # <<>> => reflected = <<last>>
       /\ apc = "aggregated" =>
            /\ reflected = <<last>>
            /\ eligible = UNION {valid_columns(NodeSensors, TargetSensors(sensors_arg),
                                    TargetFeatureProperties(e).properties) : e \in Entries}
            /\ \A i \in DOMAIN selected :
                    \A c \in absent : selected[i].column # c /\ selected[i].label # c
            /\ \A i \in DOMAIN results : DOMAIN results[i] \cap absent = {}

C20_Witness ==
    /\ apc = "aggregated"
    /\ feature_arg = temperature \o COMMA \o magnetic_field
    /\ sensors_arg = <<>>
    /\ reflected = <<magnetic_field>>
    /\ temperature \in eligible
    /\ [i \in DOMAIN selected |-> selected[i].label] =
            <<time_bucket, <<"x">>, <<"x", U, "count">>>>
    /\ \E i \in DOMAIN results : DOMAIN results[i] = {time_bucket, <<"x">>}

----------------------------------------------------------------------------
(* Properties of weather_fill *)

\* the text of an argument is an integer of the range
IntegerIn(arg, range) == arg.given /\ ParseInt(arg.s).ok /\ ParseInt(arg.s).value \in range

\* the codes the wbans argument supplies
SuppliedWbans == IF wbans_arg.given THEN Items(Split(wbans_arg.s, COMMA)) ELSE {}

----------------------------------------------------------------------------
(* Properties of unknown_features_resolve *)

\* the rows of the call's sensor that hold data whose keys are all
\* observed-property keys of the sensor
Mapped(row) ==
    /\ row.sensor = target_sensor
    /\ row.data # <<>>
    /\ DataKeys(row.data) \subseteq DOMAIN ObservedProperties(target_sensor)

\* how often the value of item k of row was inserted into the table its mapping names
TimesInserted(row, k) ==
    LET mapping == Split(ObservedProperties(target_sensor)[row.data[k][1]], DOT)
    IN Cardinality({<<i, j>> \in (DOMAIN inserts) \X (1..Len(row.data)) :
                        /\ j \in DOMAIN inserts[i].columns
                        /\ inserts[i].into = mapping[1]
                        /\ Identity(inserts[i]) = Identity(row)
                        /\ inserts[i].columns[j] = <<mapping[2], row.data[k][2]>>})

\* C19: after unknown_features_resolve(sensor), every row of the sensor whose
\* keys are all mapped has each of its values inserted exactly once into the
\* table of its mapping and is gone from the unknowns table; every other row is
\* still in the unknowns table and nothing of it was inserted.
C19_MappedRowsMigrate ==
    upc \in {"resolved", "raised"} =>
        /\ unknown_feature \subseteq unknowns_at_call
        /\ \A row \in unknowns_at_call :
            IF Mapped(row)
            THEN /\ row \notin unknown_feature
                 /\ \A k \in DOMAIN row.data : TimesInserted(row, k) = 1
            ELSE /\ row \in unknown_feature
                 /\ \A i \in DOMAIN inserts :
                        Identity(inserts[i]) = Identity(row) =>
                            \E other \in unknowns_at_call :
                                Mapped(other) /\ Identity(other) = Identity(row)

====
